---- MODULE Spec2Model ----
(***************************************************************************)
(* A model of holang: the object model's method resolution                 *)
(* (Object::find_method, Value::find_method, Object::set_method) and the   *)
(* compiler pipeline (Parser -> AST -> code_gen -> stack machine).         *)
(***************************************************************************)
EXTENDS Integers, Sequences, FiniteSets, TLC

VARIABLES
  nobj,      \* number of heap objects allocated so far (ids 1..nobj)
  isKlass,   \* isKlass[o]: o was constructed as a Klass
  klass,     \* Object::klass of every object
  methods,   \* Object::methods of every object (a map name -> Func)
  fm,        \* the running find_method call: position, receiver, this, result
  tokens,    \* the token stream handed to the Parser
  phase,     \* position of the pipeline: parse, gen, run, and the ways it ends
  ps,        \* the Parser: position in the stream, variable_table, error flag
  ast,       \* the tree built so far (root of read_toplevel), then the parsed program
  codes,     \* the buffer code_gen filled (the code being executed)
  vm         \* the stack machine: pc, operand stack, frames, definition contexts

objvars == <<nobj, isKlass, klass, methods, fm>>
compvars == <<tokens, phase, ps, ast, codes, vm>>
vars == <<nobj, isKlass, klass, methods, fm, tokens, phase, ps, ast, codes, vm>>

----------------------------------------------------------------------------
(* Bounds *)

\* heap objects that may be allocated besides the static Klass::Int
MaxObjs == 2
\* method bindings that may exist at once, over all objects
MaxBindings == 2
\* binary operators in an expression handed to the parser
MaxOps == 2
\* statements in a program handed to the parser
MaxStmts == 2

----------------------------------------------------------------------------
(* Object model: object.h, object.cc *)

NULL == -1          \* nullptr
WILD == -2          \* an indeterminate pointer that addresses no object
IntKlass == 0       \* the static singleton Klass::Int
ObjIds == 0..MaxObjs
Names == {"m", "n"}
Funcs == {"f1", "f2"}
NoFunc == "nullfunc"

Allocated == 0..nobj
Klasses == {o \in Allocated : isKlass[o]}

\* Value: the tagged union a receiver is; VBOOL stands for every tag that is
\* neither VOBJECT nor VINT
Values ==
  {[type |-> "VINT", objval |-> NULL], [type |-> "VBOOL", objval |-> NULL]}
    \cup {[type |-> "VOBJECT", objval |-> o] : o \in Allocated}

\* what the member klass of a heap Klass may hold after Klass(name), which
\* initialises name only: null, the address of any live Klass (its own
\* included), or an address of no object
IndeterminateKlass(o) == {NULL, WILD, o} \cup Klasses

IdleFm == [pc |-> "idle", type |-> "none", objval |-> NULL, name |-> "",
           this |-> NULL, result |-> NoFunc]

\* only the static Klass::Int exists, with no method, and no call is running
NoObjects ==
  /\ nobj = 0
  /\ isKlass = [o \in ObjIds |-> o = IntKlass]
  /\ klass = [o \in ObjIds |-> NULL]
  /\ methods = [o \in ObjIds |-> <<>>]
  /\ fm = IdleFm

\* the compiler pipeline is not part of the run
NoPipeline ==
  /\ tokens = <<>>
  /\ phase = "off"
  /\ ps = <<>>
  /\ ast = <<>>
  /\ codes = <<>>
  /\ vm = <<>>

InitObj == NoObjects /\ NoPipeline

\* std::map::emplace: inserts only when the key is absent
emplace(m, name, func) ==
  IF name \in DOMAIN m THEN m
  ELSE [k \in DOMAIN m \cup {name} |-> IF k = name THEN func ELSE m[k]]

RECURSIVE Bindings(_)
Bindings(n) ==
  IF n < 0 THEN 0 ELSE Cardinality(DOMAIN methods[n]) + Bindings(n - 1)

\* Object::set_method
set_method(o, name, func) ==
  /\ fm.pc = "idle"
  /\ o \in Allocated
  /\ name \in DOMAIN methods[o] \/ Bindings(MaxObjs) < MaxBindings
  /\ methods' = [methods EXCEPT ![o] = emplace(methods[o], name, func)]
  /\ UNCHANGED <<nobj, isKlass, klass, fm, compvars>>

\* new Klass(name): the constructor leaves klass uninitialised
NewKlass ==
  /\ fm.pc = "idle"
  /\ nobj < MaxObjs
  /\ \E k \in IndeterminateKlass(nobj + 1) :
       /\ nobj' = nobj + 1
       /\ isKlass' = [isKlass EXCEPT ![nobj + 1] = TRUE]
       /\ klass' = [klass EXCEPT ![nobj + 1] = k]
  /\ UNCHANGED <<methods, fm, compvars>>

\* an instance of a Klass (or of none): klass refers to the defining Klass
NewObject ==
  /\ fm.pc = "idle"
  /\ nobj < MaxObjs
  /\ \E k \in Klasses \cup {NULL} :
       /\ nobj' = nobj + 1
       /\ isKlass' = [isKlass EXCEPT ![nobj + 1] = FALSE]
       /\ klass' = [klass EXCEPT ![nobj + 1] = k]
  /\ UNCHANGED <<methods, fm, compvars>>

\* Value::find_method: the switch on the receiver's tag
Value_find_method(v, name) ==
  /\ fm.pc = "idle"
  /\ CASE v.type = "VOBJECT" ->
            fm' = [pc |-> "object", type |-> v.type, objval |-> v.objval,
                   name |-> name, this |-> v.objval, result |-> NoFunc]
       [] v.type = "VINT" ->
            fm' = [pc |-> "object", type |-> v.type, objval |-> v.objval,
                   name |-> name, this |-> IntKlass, result |-> NoFunc]
       [] OTHER ->
            fm' = [pc |-> "failed", type |-> v.type, objval |-> v.objval,
                   name |-> name, this |-> NULL, result |-> NoFunc]
  /\ UNCHANGED <<nobj, isKlass, klass, methods, compvars>>

\* a mutant of Object::find_method: the klass is asked before the object's own map
Object_find_method_klassfirst ==
  /\ fm.pc = "object"
  /\ LET o == fm.this
     IN IF klass[o] = WILD
          THEN fm' = [fm EXCEPT !.pc = "crashed"]
          ELSE IF klass[o] # NULL
            THEN fm' = [fm EXCEPT !.this = klass[o]]
            ELSE IF fm.name \in DOMAIN methods[o]
              THEN fm' = [fm EXCEPT !.pc = "returned", !.result = methods[o][fm.name]]
              ELSE fm' = [fm EXCEPT !.pc = "failed"]
  /\ UNCHANGED <<nobj, isKlass, klass, methods, compvars>>

\* Object::find_method: one activation, on the object fm.this
Object_find_method ==
  /\ fm.pc = "object"
  /\ LET o == fm.this
     IN IF fm.name \in DOMAIN methods[o]
          THEN fm' = [fm EXCEPT !.pc = "returned", !.result = methods[o][fm.name]]
          ELSE IF klass[o] # NULL
            THEN IF klass[o] = WILD
                   THEN fm' = [fm EXCEPT !.pc = "crashed"]   \* the call through a wild pointer
                   ELSE fm' = [fm EXCEPT !.this = klass[o]]  \* klass->find_method(name)
            ELSE fm' = [fm EXCEPT !.pc = "failed"]           \* "method unmatch", exit(1)
  /\ UNCHANGED <<nobj, isKlass, klass, methods, compvars>>

\* the caller takes the Func that find_method returned
TakeResult ==
  /\ fm.pc = "returned"
  /\ fm' = IdleFm
  /\ UNCHANGED <<nobj, isKlass, klass, methods, compvars>>

NextObj ==
  \/ \E o \in ObjIds, n \in Names, f \in Funcs : set_method(o, n, f)
  \/ NewKlass
  \/ NewObject
  \/ \E v \in Values, n \in Names : Value_find_method(v, n)
  \/ Object_find_method
  \/ TakeResult

SpecObj == InitObj /\ [][NextObj]_vars

\* the activations of find_method are scheduled as long as the call runs
FairSpecObj == SpecObj /\ WF_vars(Object_find_method)

----------------------------------------------------------------------------
(* Tokens and the token cursor *)

NoStr == "<null>"     \* a null string pointer

Num(s) == [type |-> "TNUMBER", keyword |-> "NONE", sval |-> s]
Id(s) == [type |-> "TIDENT", keyword |-> "NONE", sval |-> s]
Str(s) == [type |-> "TSTRING", keyword |-> "NONE", sval |-> s]
Kw(k) == [type |-> "TKEYWORD", keyword |-> k, sval |-> NoStr]
NL == [type |-> "TNEWLINE", keyword |-> "NONE", sval |-> NoStr]
EOFTok == [type |-> "TEOF", keyword |-> "NONE", sval |-> NoStr]

\* std::stoi on the literals of the model
stoi(s) ==
  CASE s = "0" -> 0 [] s = "1" -> 1 [] s = "2" -> 2 [] s = "3" -> 3
    [] s = "4" -> 4 [] s = "5" -> 5

\* the current token; past the end of the stream it is TEOF
Cur(p) == IF p.pos <= Len(tokens) THEN tokens[p.pos] ELSE EOFTok
is_next_kw(p, k) == Cur(p).type = "TKEYWORD" /\ Cur(p).keyword = k
is_next_type(p, t) == Cur(p).type = t
is_eof(p) == Cur(p).type = "TEOF"
\* get(): the current token is taken
Adv(p) == [p EXCEPT !.pos = p.pos + 1]
unget(p) == [p EXCEPT !.pos = p.pos - 1]
\* exit_by_unexpected: the ParseError that ends the process
Fail(p) == [p EXCEPT !.err = TRUE]
get_ident(p) ==
  [tok |-> Cur(p), p |-> IF is_next_type(p, "TIDENT") THEN Adv(p) ELSE Fail(Adv(p))]

\* Parser::take(Keyword)
take(p, k) == IF is_next_kw(p, k) THEN Adv(p) ELSE Fail(Adv(p))

RECURSIVE consume_newlines(_)
consume_newlines(p) ==
  IF is_next_type(p, "TNEWLINE") THEN consume_newlines(Adv(p)) ELSE p

----------------------------------------------------------------------------
(* Variable Table: a stack of frames, each the names of its slots in order *)

vt_next(vt) == Append(vt, <<>>)
vt_prev(vt) == SubSeq(vt, 1, Len(vt) - 1)
vt_get(vt, name) ==
  LET f == vt[Len(vt)]
  IN IF \E i \in 1..Len(f) : f[i] = name
       THEN [index |-> (CHOOSE i \in 1..Len(f) : f[i] = name) - 1, vt |-> vt]
       ELSE [index |-> Len(f), vt |-> [vt EXCEPT ![Len(vt)] = Append(f, name)]]

----------------------------------------------------------------------------
(* AST nodes *)

NullNode == [kind |-> "nullptr"]
IntLiteralNode(v) == [kind |-> "IntLiteral", value |-> v]
BoolLiteralNode(b) == [kind |-> "BoolLiteral", value |-> b]
StringLiteralNode(s) == [kind |-> "StringLiteral", str |-> s]
IdentNode(ident, index) == [kind |-> "Ident", ident |-> ident, index |-> index]
BinopNode(op, lhs, rhs) == [kind |-> "Binop", op |-> op, lhs |-> lhs, rhs |-> rhs]
AssignNode(lhs, rhs) == [kind |-> "Assign", lhs |-> lhs, rhs |-> rhs]
StmtsNode(current, next) == [kind |-> "Stmts", current |-> current, next |-> next]
IfNode(cond, then, els) == [kind |-> "If", cond |-> cond, then |-> then, els |-> els]
FuncCallNode(name, args, is_trailer) ==
  [kind |-> "FuncCall", name |-> name, args |-> args, is_trailer |-> is_trailer]
FuncDefNode(name, params, body) ==
  [kind |-> "FuncDef", name |-> name, params |-> params, body |-> body]
KlassDefNode(name, body) == [kind |-> "KlassDef", name |-> name, body |-> body]
SignChangeNode(body) == [kind |-> "SignChange", body |-> body]
PrimeExprNode(prime, traier) == [kind |-> "PrimeExpr", prime |-> prime, traier |-> traier]
RefFieldNode(field) == [kind |-> "RefField", field |-> field]
SendNode(args, traier) == [kind |-> "Send", args |-> args, traier |-> traier]
ImportNode(module) == [kind |-> "Import", module |-> module]

----------------------------------------------------------------------------
(* Parser: every production takes the parser state p = [pos, vt, err] and   *)
(* returns the node built and the state after it. err is the ParseError    *)
(* that ends the process: once set nothing that follows is looked at.      *)

R(node, p) == [node |-> node, p |-> p]

RECURSIVE call(_, _, _)

read_expr(p) == call("read_assignment_expr", NullNode, p)

read_number(p) == R(IntLiteralNode(stoi(Cur(p).sval)), Adv(p))

read_string(p) == R(StringLiteralNode(Cur(p).sval), Adv(p))

exprs_loop(args, p) ==
  IF ~p.err /\ is_next_kw(p, "COMMA")
    THEN LET e == call("read_expr", NullNode, Adv(p))
         IN call("exprs_loop", Append(args, e.node), e.p)
    ELSE [args |-> args, p |-> p]

read_exprs(p) ==
  LET e == call("read_expr", NullNode, p)
  IN call("exprs_loop", <<e.node>>, e.p)

read_name_or_funccall(p, is_trailer) ==
  LET ident == Cur(p)
      p1 == Adv(p)
  IN IF is_next_kw(p1, "PARENL")
       THEN LET p2 == Adv(p1)
            IN IF is_next_kw(p2, "PARENR")
                 THEN R(FuncCallNode(ident.sval, <<>>, is_trailer), Adv(p2))
                 ELSE LET a == call("read_exprs", NullNode, p2)
                      IN R(FuncCallNode(ident.sval, a.args, is_trailer),
                           take(a.p, "PARENR"))
       ELSE IF is_trailer
         THEN R(RefFieldNode(ident.sval), p1)
         ELSE LET g == vt_get(p1.vt, ident.sval)
              IN R(IdentNode(ident.sval, g.index), [p1 EXCEPT !.vt = g.vt])

read_prime(p) ==
  IF is_next_type(p, "TNUMBER") THEN read_number(p)
  ELSE IF is_next_type(p, "TIDENT") THEN call("read_name_or_funccall", FALSE, p)
  ELSE IF is_next_kw(p, "TRUE") THEN R(BoolLiteralNode(TRUE), Adv(p))
  ELSE IF is_next_kw(p, "FALSE") THEN R(BoolLiteralNode(FALSE), Adv(p))
  ELSE IF is_next_type(p, "TSTRING") THEN read_string(p)
  ELSE R(NullNode, Fail(Adv(p)))

read_traier(p) ==
  IF is_next_kw(p, "DOT") THEN call("read_name_or_funccall", TRUE, Adv(p))
  ELSE R(NullNode, p)

prime_expr_loop(node, p) ==
  IF p.err THEN R(node, p)
  ELSE LET t == call("read_traier", NullNode, p)
       IN IF t.node.kind = "nullptr" THEN R(node, t.p)
          ELSE call("prime_expr_loop", PrimeExprNode(node, t.node), t.p)

read_prime_expr(p) ==
  LET n == call("read_prime", NullNode, p)
  IN call("prime_expr_loop", n.node, n.p)

read_factor(p) ==
  IF is_next_kw(p, "SUB")
    THEN LET b == call("read_prime_expr", NullNode, Adv(p))
         IN R(SignChangeNode(b.node), b.p)
    ELSE call("read_prime_expr", NullNode, p)

multiplicative_loop(node, p) ==
  IF p.err THEN R(node, p)
  ELSE IF is_next_kw(p, "MUL")
    THEN LET r == call("read_factor", NullNode, Adv(p))
         IN call("multiplicative_loop", BinopNode("MUL", node, r.node), r.p)
  ELSE IF is_next_kw(p, "DIV")
    THEN LET r == call("read_factor", NullNode, Adv(p))
         IN call("multiplicative_loop", BinopNode("DIV", node, r.node), r.p)
  ELSE R(node, p)

read_multiplicative_expr(p) ==
  LET n == call("read_factor", NullNode, p)
  IN call("multiplicative_loop", n.node, n.p)

\* a mutant of additive_loop: the operands of + and - group to the right
additive_loop_rightassoc(node, p) ==
  IF p.err THEN R(node, p)
  ELSE IF is_next_kw(p, "ADD")
    THEN LET r == call("read_additive_expr", NullNode, Adv(p))
         IN R(BinopNode("ADD", node, r.node), r.p)
  ELSE IF is_next_kw(p, "SUB")
    THEN LET r == call("read_additive_expr", NullNode, Adv(p))
         IN R(BinopNode("SUB", node, r.node), r.p)
  ELSE R(node, p)

additive_loop(node, p) ==
  IF p.err THEN R(node, p)
  ELSE IF is_next_kw(p, "ADD")
    THEN LET r == call("read_multiplicative_expr", NullNode, Adv(p))
         IN call("additive_loop", BinopNode("ADD", node, r.node), r.p)
  ELSE IF is_next_kw(p, "SUB")
    THEN LET r == call("read_multiplicative_expr", NullNode, Adv(p))
         IN call("additive_loop", BinopNode("SUB", node, r.node), r.p)
  ELSE R(node, p)

read_additive_expr(p) ==
  LET n == call("read_multiplicative_expr", NullNode, p)
  IN call("additive_loop", n.node, n.p)

read_comp_expr(p) ==
  LET n == call("read_additive_expr", NullNode, p)
  IN IF is_next_kw(n.p, "LT")
       THEN LET r == call("read_additive_expr", NullNode, Adv(n.p))
            IN R(BinopNode("LT", n.node, r.node), r.p)
     ELSE IF is_next_kw(n.p, "GT")
       THEN LET r == call("read_additive_expr", NullNode, Adv(n.p))
            IN R(BinopNode("GT", n.node, r.node), r.p)
     ELSE n

read_assignment_expr(p) ==
  LET token == Cur(p)
      p1 == Adv(p)
  IN IF token.type = "TIDENT" /\ is_next_kw(p1, "ASSIGN")
       THEN LET g == vt_get(p1.vt, token.sval)
                r == call("read_assignment_expr", NullNode, [Adv(p1) EXCEPT !.vt = g.vt])
            IN R(AssignNode(IdentNode(token.sval, g.index), r.node), r.p)
       ELSE call("read_comp_expr", NullNode, unget(p1))

suite_loop(suite, p) ==
  IF p.err \/ is_next_kw(p, "BRACER") THEN R(suite, p)
  ELSE LET n == call("read_stmt", NullNode, p)
           p1 == consume_newlines(n.p)
       IN call("suite_loop", IF suite.kind # "nullptr" THEN StmtsNode(suite, n.node)
                     ELSE n.node, p1)

read_suite(p) ==
  LET p1 == consume_newlines(take(p, "BRACEL"))
      s == call("suite_loop", NullNode, p1)
  IN R(s.node, take(s.p, "BRACER"))

read_import(p) ==
  LET n == call("read_expr", NullNode, take(p, "IMPORT"))
  IN R(ImportNode(n.node), n.p)

read_klassdef(p) ==
  LET ident == get_ident(take(p, "CLASS"))
      body == call("read_suite", NullNode, ident.p)
  IN R(KlassDefNode(ident.tok.sval, body.node), body.p)

RECURSIVE params_loop(_, _)
params_loop(params, p) ==
  IF ~p.err /\ is_next_kw(p, "COMMA")
    THEN LET t == get_ident(Adv(p))
         IN params_loop(Append(params, t.tok.sval), t.p)
    ELSE [params |-> params, p |-> p]

read_params(p) ==
  IF ~is_next_type(p, "TIDENT") THEN [params |-> <<>>, p |-> p]
  ELSE LET t == get_ident(p)
       IN params_loop(<<t.tok.sval>>, t.p)

\* a mutant of read_funcdef: the scope pushed for the function is never popped
read_funcdef_noprev(p) ==
  LET ident == get_ident(take(p, "FUNC"))
      p1 == [ident.p EXCEPT !.vt = vt_next(ident.p.vt)]
      pr == read_params(take(p1, "PARENL"))
      body == call("read_suite", NullNode, take(pr.p, "PARENR"))
  IN R(FuncDefNode(ident.tok.sval, pr.params, body.node), body.p)

read_funcdef(p) ==
  LET ident == get_ident(take(p, "FUNC"))
      p1 == [ident.p EXCEPT !.vt = vt_next(ident.p.vt)]
      pr == read_params(take(p1, "PARENL"))
      body == call("read_suite", NullNode, take(pr.p, "PARENR"))
      p2 == [body.p EXCEPT !.vt = vt_prev(body.p.vt)]
  IN R(FuncDefNode(ident.tok.sval, pr.params, body.node), p2)

read_if(p) ==
  LET c == call("read_expr", NullNode, take(p, "IF"))
      t == call("read_suite", NullNode, c.p)
  IN IF ~t.p.err /\ is_next_kw(t.p, "ELSE")
       THEN LET e == call("read_stmt", NullNode, Adv(t.p))
            IN R(IfNode(c.node, t.node, e.node), e.p)
       ELSE R(IfNode(c.node, t.node, NullNode), t.p)

read_stmt(p) ==
  IF is_next_kw(p, "IF") THEN call("read_if", NullNode, p)
  ELSE IF is_next_kw(p, "FUNC") THEN call("read_funcdef", NullNode, p)
  ELSE IF is_next_kw(p, "CLASS") THEN call("read_klassdef", NullNode, p)
  ELSE IF is_next_kw(p, "IMPORT") THEN call("read_import", NullNode, p)
  ELSE IF is_next_kw(p, "BRACEL") THEN call("read_suite", NullNode, p)
  ELSE call("read_expr", NullNode, p)

\* The productions call one another through this table of them: x is the
\* production's first argument when it takes two (the node or the list built
\* so far, or is_trailer).
call(prod, x, p) ==
  CASE prod = "read_stmt" -> read_stmt(p)
    [] prod = "read_if" -> read_if(p)
    [] prod = "read_funcdef" -> read_funcdef(p)
    [] prod = "read_klassdef" -> read_klassdef(p)
    [] prod = "read_import" -> read_import(p)
    [] prod = "read_suite" -> read_suite(p)
    [] prod = "suite_loop" -> suite_loop(x, p)
    [] prod = "read_expr" -> read_expr(p)
    [] prod = "read_assignment_expr" -> read_assignment_expr(p)
    [] prod = "read_comp_expr" -> read_comp_expr(p)
    [] prod = "read_additive_expr" -> read_additive_expr(p)
    [] prod = "additive_loop" -> additive_loop(x, p)
    [] prod = "read_multiplicative_expr" -> read_multiplicative_expr(p)
    [] prod = "multiplicative_loop" -> multiplicative_loop(x, p)
    [] prod = "read_factor" -> read_factor(p)
    [] prod = "read_prime_expr" -> read_prime_expr(p)
    [] prod = "prime_expr_loop" -> prime_expr_loop(x, p)
    [] prod = "read_traier" -> read_traier(p)
    [] prod = "read_prime" -> read_prime(p)
    [] prod = "read_name_or_funccall" -> read_name_or_funccall(p, x)
    [] prod = "read_exprs" -> read_exprs(p)
    [] prod = "exprs_loop" -> exprs_loop(x, p)

\* Parser::read_toplevel, one turn of its loop: a statement is read and
\* joined to the root
ParseStmt ==
  /\ phase = "parse"
  /\ ~is_eof(ps)
  /\ LET n == read_stmt(ps)
     IN IF n.p.err
          THEN /\ phase' = "ParseError"
               /\ ps' = n.p
               /\ ast' = ast
          ELSE /\ phase' = phase
               /\ ps' = consume_newlines(n.p)
               /\ ast' = IF ast.kind # "nullptr" THEN StmtsNode(ast, n.node)
                         ELSE n.node
  /\ UNCHANGED <<tokens, codes, vm, objvars>>

\* Parser::read_toplevel at the end of the stream: the root is returned
ParseEnd ==
  /\ phase = "parse"
  /\ is_eof(ps)
  /\ phase' = "gen"
  /\ UNCHANGED <<tokens, ps, ast, codes, vm, objvars>>


----------------------------------------------------------------------------
(* Code generation: Node::code_gen. A buffer is a sequence of Code slots;  *)
(* indices into it are counted from 0 as in the source. g = [codes, err]:  *)
(* err names the way code generation ended the process, "" while it runs.  *)

Op(x) == [op |-> x]
IVal(i) == [ival |-> i]
BVal(b) == [bval |-> b]
SVal(x) == [sval |-> x]
ObjVal(body) == [objval |-> body]

NoErr == ""
Crash == "crash"      \* a virtual call through a null Node pointer
Unsupported(func) == "unsupported: " \o func

emit(g, slots) == IF g.err # NoErr THEN g ELSE [g EXCEPT !.codes = @ \o slots]

\* exit_by_unsupported
exit_by_unsupported(g, func) ==
  IF g.err # NoErr THEN g ELSE [g EXCEPT !.err = Unsupported(func)]

to_opcode(c) ==
  CASE c = "ADD" -> "ADD" [] c = "SUB" -> "SUB" [] c = "MUL" -> "MUL"
    [] c = "DIV" -> "DIV" [] c = "LT" -> "LESS" [] c = "GT" -> "GREATER"

RECURSIVE code_gen(_, _), args_gen(_, _, _)

\* for (Node *arg : args) arg->code_gen(codes)
args_gen(args, i, g) ==
  IF i > Len(args) THEN g ELSE args_gen(args, i + 1, code_gen(args[i], g))

IfNode_code_gen(node, g) ==
  LET g1 == code_gen(node.cond, g)
      from_if == Len(g1.codes) + 1
      g2 == emit(g1, <<Op("JUMP_IFNOT"), IVal(0)>>)
      g3 == code_gen(node.then, g2)
      from_then == Len(g3.codes) + 1
      g4 == emit(g3, <<Op("JUMP"), IVal(0)>>)
      to_else == Len(g4.codes)
      g5 == IF node.els.kind = "nullptr"
              THEN emit(g4, <<Op("PUT_INT"), IVal(0)>>)
              ELSE code_gen(node.els, g4)
      to_end == Len(g5.codes)
  IN IF g5.err # NoErr THEN g5
     ELSE [g5 EXCEPT !.codes = [@ EXCEPT ![from_if + 1] = IVal(to_else),
                                         ![from_then + 1] = IVal(to_end)]]

FuncDefNode_code_gen(node, g) ==
  LET b == code_gen(node.body, [codes |-> <<>>, err |-> NoErr])
  IN IF b.err # NoErr THEN [g EXCEPT !.err = b.err]
     ELSE emit(g, <<Op("DEF_FUNC"), SVal(node.name),
                    ObjVal(Append(b.codes, Op("RET")))>>)

\* a mutant of KlassDefNode::code_gen: the PREV_ENV after the body is missing
KlassDefNode_code_gen_noprev(node, g) ==
  code_gen(node.body, emit(g, <<Op("LOAD_CLASS"), SVal(node.name)>>))

KlassDefNode_code_gen(node, g) ==
  emit(code_gen(node.body, emit(g, <<Op("LOAD_CLASS"), SVal(node.name)>>)),
       <<Op("PREV_ENV")>>)

code_gen(node, g) ==
  IF g.err # NoErr THEN g
  ELSE CASE node.kind = "nullptr" -> [g EXCEPT !.err = Crash]
    [] node.kind = "IntLiteral" -> emit(g, <<Op("PUT_INT"), IVal(node.value)>>)
    [] node.kind = "BoolLiteral" -> emit(g, <<Op("PUT_BOOL"), BVal(node.value)>>)
    [] node.kind = "StringLiteral" -> emit(g, <<Op("PUT_STRING"), SVal(node.str)>>)
    [] node.kind = "Ident" -> emit(g, <<Op("LOAD_LOCAL"), IVal(node.index)>>)
    [] node.kind = "Binop" ->
         emit(code_gen(node.rhs, code_gen(node.lhs, g)), <<Op(to_opcode(node.op))>>)
    [] node.kind = "Assign" ->
         emit(code_gen(node.rhs, g), <<Op("STORE_LOCAL"), IVal(node.lhs.index)>>)
    [] node.kind = "Stmts" ->
         code_gen(node.next, emit(code_gen(node.current, g), <<Op("POP")>>))
    [] node.kind = "If" -> IfNode_code_gen(node, g)
    [] node.kind = "FuncCall" ->
         emit(args_gen(node.args, 1,
                       IF node.is_trailer THEN g ELSE emit(g, <<Op("PUT_SELF")>>)),
              <<Op("CALL_FUNC"), SVal(node.name), IVal(Len(node.args))>>)
    [] node.kind = "FuncDef" -> FuncDefNode_code_gen(node, g)
    [] node.kind = "KlassDef" -> KlassDefNode_code_gen(node, g)
    [] node.kind = "SignChange" -> exit_by_unsupported(g, "SignChangeNode#code_gen()")
    [] node.kind = "PrimeExpr" -> code_gen(node.traier, code_gen(node.prime, g))
    [] node.kind = "RefField" -> emit(g, <<Op("LOAD_OBJ_FIELD"), SVal(node.field)>>)
    [] node.kind = "Send" ->
         exit_by_unsupported(args_gen(node.args, 1, g), "SendNode#code_gen()")
    [] node.kind = "Import" -> emit(code_gen(node.module, g), <<Op("IMPORT")>>)

----------------------------------------------------------------------------
(* The stack machine *)

VInt(n) == [type |-> "VINT", ival |-> n, sval |-> ""]
VBool(b) == [type |-> "VBOOL", ival |-> IF b THEN 1 ELSE 0, sval |-> ""]
VString(x) == [type |-> "VSTRING", ival |-> 0, sval |-> x]
VObject(name) == [type |-> "VOBJECT", ival |-> 0, sval |-> name]
VNone == [type |-> "VNONE", ival |-> 0, sval |-> ""]

MainObj == "main"     \* the top-level receiver and definition context

\* C++ integer division: the quotient is truncated towards zero
tdiv(a, b) ==
  LET abs(x) == IF x < 0 THEN -x ELSE x
      q == abs(a) \div abs(b)
  IN IF (a < 0) # (b < 0) THEN -q ELSE q

binop(op, a, b) ==
  CASE op = "ADD" -> VInt(a + b)
    [] op = "SUB" -> VInt(a - b)
    [] op = "MUL" -> VInt(a * b)
    [] op = "DIV" -> VInt(tdiv(a, b))
    [] op = "LESS" -> VBool(a < b)
    [] op = "GREATER" -> VBool(a > b)

BinOps == {"ADD", "SUB", "MUL", "DIV", "LESS", "GREATER"}

InitVm(code) ==
  [code |-> code, pc |-> 0, stack |-> <<>>, locals |-> <<>>, self |-> MainObj,
   frames |-> <<>>, envs |-> <<MainObj>>, defs |-> [c \in {MainObj} |-> <<>>]]

\* Node::code_gen on the root of the program, into an empty buffer
CodeGen ==
  /\ phase = "gen"
  /\ LET g == code_gen(ast, [codes |-> <<>>, err |-> NoErr])
     IN IF g.err # NoErr
          THEN /\ phase' = g.err
               /\ codes' = codes
               /\ vm' = vm
          ELSE /\ phase' = "run"
               /\ codes' = g.codes
               /\ vm' = InitVm(g.codes)
  /\ UNCHANGED <<tokens, ps, ast, objvars>>

Running == phase = "run" /\ vm.pc < Len(vm.code)
CurOp == vm.code[vm.pc + 1].op
Operand(k) == vm.code[vm.pc + 1 + k]
Depth == Len(vm.stack)
Top == vm.stack[Depth]
Popped(k) == SubSeq(vm.stack, 1, Depth - k)

\* the machine goes on with the next instruction
Go(next) ==
  /\ vm' = next
  /\ UNCHANGED <<tokens, phase, ps, ast, codes, objvars>>
\* a fatal error ends the process
Die(how) ==
  /\ phase' = how
  /\ UNCHANGED <<tokens, ps, ast, codes, vm, objvars>>

Exec_PUT ==
  /\ Running
  /\ CurOp \in {"PUT_INT", "PUT_BOOL", "PUT_STRING"}
  /\ LET v == CASE CurOp = "PUT_INT" -> VInt(Operand(1).ival)
                [] CurOp = "PUT_BOOL" -> VBool(Operand(1).bval)
                [] CurOp = "PUT_STRING" -> VString(Operand(1).sval)
     IN Go([vm EXCEPT !.pc = @ + 2, !.stack = Append(@, v)])

Exec_BINOP ==
  /\ Running
  /\ CurOp \in BinOps
  /\ IF Depth < 2 THEN Die("StackUnderflow")
     ELSE LET a == vm.stack[Depth - 1]
              b == Top
          IN IF a.type # "VINT" \/ b.type # "VINT" THEN Die("RuntimeTypeError")
             ELSE IF CurOp = "DIV" /\ b.ival = 0 THEN Die("DivisionByZero")
             ELSE Go([vm EXCEPT !.pc = @ + 1,
                                !.stack = Append(Popped(2), binop(CurOp, a.ival, b.ival))])

Underflow == Die("StackUnderflow")

Exec_LOAD_LOCAL ==
  /\ Running
  /\ CurOp = "LOAD_LOCAL"
  /\ LET idx == Operand(1).ival
     IN IF idx >= Len(vm.locals) THEN Die("LocalOutOfRange")
        ELSE Go([vm EXCEPT !.pc = @ + 2, !.stack = Append(@, vm.locals[idx + 1])])

\* locals with slot idx written; the slots below it that were never written
\* hold no value yet
store_local(locals, idx, v) ==
  [i \in 1..(IF idx + 1 > Len(locals) THEN idx + 1 ELSE Len(locals)) |->
     IF i = idx + 1 THEN v ELSE IF i <= Len(locals) THEN locals[i] ELSE VNone]

Exec_STORE_LOCAL ==
  /\ Running
  /\ CurOp = "STORE_LOCAL"
  /\ IF Depth < 1 THEN Underflow
     ELSE Go([vm EXCEPT !.pc = @ + 2, !.stack = Popped(1),
                        !.locals = store_local(@, Operand(1).ival, Top)])

\* (v) -> (): on an empty stack there is nothing to discard, and what the
\* machine does then is not fixed: it stops, or the POP has no effect
Exec_POP ==
  /\ Running
  /\ CurOp = "POP"
  /\ IF Depth < 1 THEN Underflow \/ Go([vm EXCEPT !.pc = @ + 1])
     ELSE Go([vm EXCEPT !.pc = @ + 1, !.stack = Popped(1)])

Exec_JUMP_IFNOT ==
  /\ Running
  /\ CurOp = "JUMP_IFNOT"
  /\ IF Depth < 1 THEN Underflow
     ELSE IF Top.type = "VBOOL" /\ Top.ival = 1
       THEN Go([vm EXCEPT !.pc = @ + 2, !.stack = Popped(1)])
       ELSE Go([vm EXCEPT !.pc = Operand(1).ival, !.stack = Popped(1)])

Exec_JUMP ==
  /\ Running
  /\ CurOp = "JUMP"
  /\ Go([vm EXCEPT !.pc = Operand(1).ival])

Exec_PUT_SELF ==
  /\ Running
  /\ CurOp = "PUT_SELF"
  /\ Go([vm EXCEPT !.pc = @ + 1, !.stack = Append(@, VObject(vm.self))])

\* the Func a receiver resolves name to: an object's own methods; an integer
\* is looked up in Klass::Int, which holds no method of the programs' names
Resolvable(recv, name) ==
  /\ recv.type = "VOBJECT"
  /\ recv.sval \in DOMAIN vm.defs
  /\ name \in DOMAIN vm.defs[recv.sval]

Exec_CALL_FUNC ==
  /\ Running
  /\ CurOp = "CALL_FUNC"
  /\ LET name == Operand(1).sval
         argc == Operand(2).ival
     IN IF Depth < argc + 1 THEN Underflow
        ELSE LET recv == vm.stack[Depth - argc]
                 args == SubSeq(vm.stack, Depth - argc + 1, Depth)
             IN IF ~Resolvable(recv, name) THEN Die("MethodResolutionError")
                ELSE Go([vm EXCEPT
                           !.code = vm.defs[recv.sval][name],
                           !.pc = 0,
                           !.stack = <<>>,
                           !.locals = args,
                           !.self = recv.sval,
                           !.frames = Append(@, [code |-> vm.code, pc |-> vm.pc + 3,
                                                 stack |-> Popped(argc + 1),
                                                 locals |-> vm.locals,
                                                 self |-> vm.self])])

Exec_DEF_FUNC ==
  /\ Running
  /\ CurOp = "DEF_FUNC"
  /\ LET ctx == vm.envs[Len(vm.envs)]
     IN Go([vm EXCEPT !.pc = @ + 3,
                      !.defs[ctx] = emplace(@, Operand(1).sval, Operand(2).objval)])

Exec_LOAD_CLASS ==
  /\ Running
  /\ CurOp = "LOAD_CLASS"
  /\ LET name == Operand(1).sval
     IN Go([vm EXCEPT !.pc = @ + 2,
                      !.envs = Append(@, name),
                      !.defs = [c \in DOMAIN vm.defs \cup {name} |->
                                  IF c \in DOMAIN vm.defs THEN vm.defs[c] ELSE <<>>]])

Exec_PREV_ENV ==
  /\ Running
  /\ CurOp = "PREV_ENV"
  /\ Go([vm EXCEPT !.pc = @ + 1, !.envs = SubSeq(@, 1, Len(@) - 1)])

\* no instruction of the machine stores a field: every load of one fails
Exec_LOAD_OBJ_FIELD ==
  /\ Running
  /\ CurOp = "LOAD_OBJ_FIELD"
  /\ IF Depth < 1 THEN Underflow ELSE Die("FieldAccessError")

Exec_IMPORT ==
  /\ Running
  /\ CurOp = "IMPORT"
  /\ IF Depth < 1 THEN Underflow
     ELSE Go([vm EXCEPT !.pc = @ + 1, !.stack = Popped(1)])

Exec_RET ==
  /\ Running
  /\ CurOp = "RET"
  /\ IF Depth < 1 THEN Underflow
     ELSE IF vm.frames = <<>> THEN Die("halted")
     ELSE LET f == vm.frames[Len(vm.frames)]
          IN Go([vm EXCEPT !.code = f.code, !.pc = f.pc,
                           !.stack = Append(f.stack, Top),
                           !.locals = f.locals, !.self = f.self,
                           !.frames = SubSeq(@, 1, Len(@) - 1)])

\* the end of the outermost buffer: the program has run
Halt ==
  /\ phase = "run"
  /\ vm.pc >= Len(vm.code)
  /\ phase' = "halted"
  /\ UNCHANGED <<tokens, ps, ast, codes, vm, objvars>>


----------------------------------------------------------------------------
(* Expressions: parse, generate, evaluate *)

Lits == {"1", "2", "3"}
ArithOps == {"ADD", "SUB", "MUL", "DIV"}
CompOps == {"LT", "GT"}

RECURSIVE ExprSeqs(_)
\* the token sequences  literal (operator literal)^n
ExprSeqs(n) ==
  IF n = 0 THEN {<<Num(l)>> : l \in Lits}
  ELSE {e \o <<Kw(o), Num(l)>> :
          e \in ExprSeqs(n - 1), o \in ArithOps \cup CompOps, l \in Lits}

CompCount(e) == Cardinality({i \in 1..Len(e) : e[i].keyword \in CompOps})

ExprInputs == {e \in UNION {ExprSeqs(n) : n \in 0..MaxOps} : CompCount(e) <= 1}

ParserStart == [pos |-> 1, vt |-> <<<<>>>>, err |-> FALSE]

\* the pipeline before the first token is read
PipelineStart ==
  /\ phase = "parse"
  /\ ps = ParserStart
  /\ ast = NullNode
  /\ codes = <<>>
  /\ vm = InitVm(<<>>)

InitExpr == tokens \in ExprInputs /\ PipelineStart /\ NoObjects

NextExpr ==
  \/ ParseStmt
  \/ ParseEnd
  \/ CodeGen
  \/ Exec_PUT
  \/ Exec_BINOP
  \/ Halt

SpecExpr == InitExpr /\ [][NextExpr]_vars

\* The reference evaluation of  literal (operator literal)^n : the sequence is
\* split at its comparison, else at its last + or -, else at its last * or /.
RECURSIVE RefTerm(_), RefArith(_)
RefTerm(e) ==
  IF Len(e) = 1 THEN stoi(e[1].sval)
  ELSE LET l == RefTerm(SubSeq(e, 1, Len(e) - 2))
           r == stoi(e[Len(e)].sval)
       IN IF e[Len(e) - 1].keyword = "MUL" THEN l * r ELSE l \div r

RefArith(e) ==
  LET adds == {i \in 1..Len(e) : e[i].keyword \in {"ADD", "SUB"}}
  IN IF adds = {} THEN RefTerm(e)
     ELSE LET i == CHOOSE k \in adds : \A j \in adds : j <= k
              l == RefArith(SubSeq(e, 1, i - 1))
              r == RefTerm(SubSeq(e, i + 1, Len(e)))
          IN IF e[i].keyword = "ADD" THEN l + r ELSE l - r

RefEval(e) ==
  LET comps == {i \in 1..Len(e) : e[i].keyword \in CompOps}
  IN IF comps = {} THEN VInt(RefArith(e))
     ELSE LET i == CHOOSE k \in comps : TRUE
              l == RefArith(SubSeq(e, 1, i - 1))
              r == RefArith(SubSeq(e, i + 1, Len(e)))
          IN IF e[i].keyword = "LT" THEN VBool(l < r) ELSE VBool(l > r)

\* C2: every expression of integer literals and binary operators with at
\* most one comparison is parsed and compiled without error, and the code
\* run on the stack machine leaves exactly the value of the reference
\* evaluation (* and / over + and -, these over < and >, left to right).
C2_Precedence ==
  /\ phase \in {"parse", "gen", "run", "halted"}
  /\ phase = "halted" => vm.stack = <<RefEval(tokens)>>

\* C2 witness: 1 + 2 * 3 has run and left 7
C2_Witness ==
  /\ phase = "halted"
  /\ tokens = <<Num("1"), Kw("ADD"), Num("2"), Kw("MUL"), Num("3")>>
  /\ vm.stack = <<VInt(7)>>


----------------------------------------------------------------------------
(* Programs: parse, generate, run *)

One == <<Num("1")>>
Two == <<Num("2")>>
AssignA == <<Id("a"), Kw("ASSIGN"), Num("1")>>
LoadA == <<Id("a")>>
Neg == <<Kw("SUB"), Num("1")>>
Sum == <<Num("1"), Kw("ADD"), Num("2")>>
CallAdd == <<Id("add"), Kw("PARENL"), Num("2"), Kw("COMMA"), Num("3"), Kw("PARENR")>>
CallNone == <<Id("add"), Kw("PARENL"), Kw("PARENR")>>
Field == <<Id("a"), Kw("DOT"), Id("x")>>
Bogus == <<Num("3"), Kw("DOT"), Id("bogus"), Kw("PARENL"), Kw("PARENR")>>
DotTrue == <<Num("3"), Kw("DOT"), Kw("TRUE")>>
Text == <<Str("s")>>
Dangling == <<Num("1"), Kw("ADD")>>

Brace(body) == <<Kw("BRACEL")>> \o body \o <<Kw("BRACER")>>
If(c, b) == <<Kw("IF")>> \o c \o Brace(b)
IfElse(c, b1, b2) == If(c, b1) \o <<Kw("ELSE")>> \o Brace(b2)
Func(name, params, body) ==
  <<Kw("FUNC"), Id(name), Kw("PARENL")>> \o params \o <<Kw("PARENR")>> \o Brace(body)
Class(name, body) == <<Kw("CLASS"), Id(name)>> \o Brace(body)
Import(e) == <<Kw("IMPORT")>> \o e
Params2 == <<Id("a"), Kw("COMMA"), Id("b")>>

Conds == {<<Kw("TRUE")>>, <<Kw("FALSE")>>, <<Num("1"), Kw("LT"), Num("2")>>}
Branches == {<<>>, One, AssignA, Neg, One \o <<NL>> \o Two}
ElseBranches == {Two, AssignA, Neg}

ExprStmts ==
  {One, AssignA, LoadA, Neg, Sum, CallAdd, CallNone, Field, Bogus, DotTrue,
   Text, Dangling}
IfStmts ==
  {If(c, b) : c \in Conds, b \in Branches}
    \cup {IfElse(c, b1, b2) : c \in Conds, b1 \in Branches, b2 \in ElseBranches}
    \cup {IfElse(<<Kw("FALSE")>>, One, If(c, Two)) : c \in Conds}
FuncStmts ==
  {Func("add", Params2, <<Id("a"), Kw("ADD"), Id("b")>>),
   Func("add", Params2, <<Id("b"), Kw("SUB"), Id("a")>>),
   Func("add", Params2, <<Id("b")>>),
   Func("add", Params2, Neg),
   Func("add", <<>>, IfElse(<<Kw("FALSE")>>, One, Two)),
   Func("add", <<>>, <<>>)}
ClassStmts ==
  {Class("K", Func("m", <<Id("a")>>, LoadA)),
   Class("K", IfElse(<<Kw("TRUE")>>, One, Two)),
   Class("K", <<>>)}
Stmts == ExprStmts \cup IfStmts \cup FuncStmts \cup ClassStmts
           \cup {Import(Text), Brace(<<>>), Brace(One)}

RECURSIVE ProgramsOf(_, _)
\* the programs of n statements of S, each followed by a newline
ProgramsOf(S, n) ==
  IF n = 0 THEN {<<>>}
  ELSE {q \o st \o <<NL>> : q \in ProgramsOf(S, n - 1), st \in S}

\* the programs of at most n statements of S
ProgramsUpTo(S, n) == UNION {ProgramsOf(S, k) : k \in 0..n}

InitProg == tokens \in ProgramsUpTo(Stmts, MaxStmts) /\ PipelineStart /\ NoObjects

NextProg ==
  \/ ParseStmt
  \/ ParseEnd
  \/ CodeGen
  \/ Exec_PUT
  \/ Exec_LOAD_LOCAL
  \/ Exec_STORE_LOCAL
  \/ Exec_BINOP
  \/ Exec_POP
  \/ Exec_JUMP_IFNOT
  \/ Exec_JUMP
  \/ Exec_PUT_SELF
  \/ Exec_CALL_FUNC
  \/ Exec_DEF_FUNC
  \/ Exec_LOAD_CLASS
  \/ Exec_PREV_ENV
  \/ Exec_LOAD_OBJ_FIELD
  \/ Exec_IMPORT
  \/ Exec_RET
  \/ Halt

SpecProg == InitProg /\ [][NextProg]_vars


----------------------------------------------------------------------------
(* Method resolution: the claims *)

\* the object a resolution starts at: the receiver object, or Klass::Int for
\* an integer receiver
StartOf(type, objval) == IF type = "VINT" THEN IntKlass ELSE objval

KlassPaths == UNION {[1..n -> Allocated] : n \in 1..(nobj + 1)}

\* p is a chain of klass references from the start object, and every object
\* of it but the last has no method of that name
IsMissPath(p, start, name) ==
  /\ p[1] = start
  /\ \A i \in 1..(Len(p) - 1) :
       /\ name \notin DOMAIN methods[p[i]]
       /\ klass[p[i]] = p[i + 1]

\* C1: a returned Func is the binding of the nearest object on the klass
\* chain from the receiver (the receiver itself first, Klass::Int for an
\* integer) that binds the name; a failure means the receiver is of another
\* kind, or the chain ends in an object that has no klass and no binding.
C1_Resolution ==
  /\ fm.pc = "returned" =>
       /\ fm.type \in {"VOBJECT", "VINT"}
       /\ \E p \in KlassPaths :
            /\ IsMissPath(p, StartOf(fm.type, fm.objval), fm.name)
            /\ fm.name \in DOMAIN methods[p[Len(p)]]
            /\ fm.result = methods[p[Len(p)]][fm.name]
  /\ fm.pc = "failed" =>
       \/ fm.type \notin {"VOBJECT", "VINT"}
       \/ \E p \in KlassPaths :
            /\ IsMissPath(p, StartOf(fm.type, fm.objval), fm.name)
            /\ fm.name \notin DOMAIN methods[p[Len(p)]]
            /\ klass[p[Len(p)]] = NULL
  /\ (fm.pc # "idle" /\ fm.type \notin {"VOBJECT", "VINT"}) => fm.pc = "failed"

\* C1 witness: an object's own method was returned although its klass binds
\* the same name to another Func
C1_Witness ==
  /\ fm.pc = "returned"
  /\ fm.type = "VOBJECT"
  /\ fm.this = fm.objval
  /\ klass[fm.objval] \in Allocated
  /\ fm.name \in DOMAIN methods[klass[fm.objval]]
  /\ methods[klass[fm.objval]][fm.name] # fm.result

\* C7 (as claimed): in every state the program reaches, set_method(name, f)
\* on any object leaves a map in which a lookup of name yields f, whatever the
\* map held before (a binding of name to another Func included).
C7_SetThenFind ==
  \A o \in Allocated, n \in Names, f \in Funcs :
    LET after == emplace(methods[o], n, f)
    IN n \in DOMAIN after /\ after[n] = f

\* C9 (as claimed): every resolution that has started ends, by returning a
\* Func or by terminating the program.
C9_Terminates ==
  (fm.pc = "object") ~> (fm.pc \in {"returned", "failed", "crashed"})

----------------------------------------------------------------------------
(* Parsing alone: the scopes of the Variable Table *)

AssignX == <<Id("x"), Kw("ASSIGN"), Num("1")>>
AssignY == <<Id("y"), Kw("ASSIGN"), Num("2")>>
LoadY == <<Id("y")>>
Nested ==
  Func("g", <<>>, AssignX \o <<NL>> \o Func("h", <<>>, AssignY) \o <<NL>> \o LoadY)

ScopeStmts ==
  {AssignX, AssignY, LoadY,
   Func("f", <<>>, AssignY),
   Func("f", <<Id("x")>>, AssignY \o <<NL, Id("x")>>),
   Func("f", <<>>, <<>>),
   Nested,
   Class("K", Func("m", <<>>, AssignY)),
   If(<<Kw("TRUE")>>, Func("f", <<>>, AssignY)),
   <<Kw("FUNC"), Id("f"), Kw("PARENL")>>}

InitParse == tokens \in ProgramsUpTo(ScopeStmts, MaxStmts) /\ PipelineStart /\ NoObjects

NextParse ==
  \/ ParseStmt
  \/ ParseEnd

SpecParse == InitParse /\ [][NextParse]_vars

----------------------------------------------------------------------------
(* The tree a parse built *)

\* the nodes a node points to, in the order the parser read them
Children(node) ==
  CASE node.kind \in {"Binop", "Assign"} -> <<node.lhs, node.rhs>>
    [] node.kind = "Stmts" -> <<node.current, node.next>>
    [] node.kind = "If" -> <<node.cond, node.then, node.els>>
    [] node.kind = "FuncCall" -> node.args
    [] node.kind \in {"FuncDef", "KlassDef", "SignChange"} -> <<node.body>>
    [] node.kind = "PrimeExpr" -> <<node.prime, node.traier>>
    [] node.kind = "Send" -> Append(node.args, node.traier)
    [] node.kind = "Import" -> <<node.module>>
    [] OTHER -> <<>>

\* a node of one of the kinds is in the tree
RECURSIVE Contains(_, _)
Contains(node, kinds) ==
  \/ node.kind \in kinds
  \/ \E i \in DOMAIN Children(node) : Contains(Children(node)[i], kinds)

\* the parse has ended without a ParseError
Parsed == phase \notin {"parse", "ParseError"}

----------------------------------------------------------------------------
(* Parser and code generator: the claims *)

\* every identifier of node that names the i-th parameter of the function
\* definition it stands in has slot i - 1, the slot CALL_FUNC binds the i-th
\* argument to
RECURSIVE SlotsOK(_, _)
SlotsOK(node, params) ==
  CASE node.kind = "Ident" ->
         \A i \in 1..Len(params) : params[i] = node.ident => node.index = i - 1
    [] node.kind = "FuncDef" -> SlotsOK(node.body, node.params)
    [] OTHER -> \A i \in DOMAIN Children(node) : SlotsOK(Children(node)[i], params)

\* C3 (as claimed): in every parsed program, each reference to the i-th
\* parameter inside a function body is compiled to local slot i - 1, the slot
\* the i-th argument of a call is bound to, whatever the body mentions first.
C3_ParamSlots == Parsed => SlotsOK(ast, <<>>)

\* C4 (as claimed): running the code of an accepted program never pops an
\* empty operand stack, and a program that has run leaves exactly one value
\* on the stack, the value of its last statement.
C4_StackDiscipline ==
  /\ phase # "StackUnderflow"
  /\ phase = "halted" => Len(vm.stack) = 1

\* a node with all of its children and names present; only the else branch
\* of an If may be absent
RECURSIVE WellFormed(_)
WellFormed(node) ==
  /\ node.kind # "nullptr"
  /\ CASE node.kind = "Ident" -> node.ident # NoStr
       [] node.kind \in {"FuncCall", "KlassDef"} -> node.name # NoStr
       [] node.kind = "FuncDef" ->
            node.name # NoStr /\ \A i \in DOMAIN node.params : node.params[i] # NoStr
       [] node.kind = "RefField" -> node.field # NoStr
       [] OTHER -> TRUE
  /\ \A i \in DOMAIN Children(node) :
       \/ node.kind = "If" /\ i = 3 /\ node.els.kind = "nullptr"
       \/ WellFormed(Children(node)[i])

\* C5 (as claimed): a parse that did not end in a ParseError has built a
\* fully-formed tree: a non-null node all of whose children and names are
\* present, for every token sequence (the empty program, an empty suite and a
\* trailer that is no identifier included).
C5_FullyFormed == Parsed => WellFormed(ast)

\* the slots the enclosing scope holds after node was parsed into a scope
\* that held acc: the identifiers outside every function definition, in the
\* order they were first read
RECURSIVE OuterNames(_, _), OuterNamesOf(_, _, _)
OuterNames(node, acc) ==
  CASE node.kind = "Ident" ->
         IF \E i \in DOMAIN acc : acc[i] = node.ident THEN acc
         ELSE Append(acc, node.ident)
    [] node.kind = "FuncDef" -> acc
    [] OTHER -> OuterNamesOf(Children(node), 1, acc)
OuterNamesOf(kids, i, acc) ==
  IF i > Len(kids) THEN acc ELSE OuterNamesOf(kids, i + 1, OuterNames(kids[i], acc))

\* the parser states a function definition at token i can be entered in: the
\* scope stack of the parse so far, and one more scope on top of it
ScopesAt(i) ==
  {[pos |-> i, vt |-> t, err |-> FALSE] : t \in {ps.vt, vt_next(ps.vt)}}

\* C6: a function definition parsed at any position (a nested one included)
\* leaves the scope stack exactly as it found it, and the tree it builds does
\* not depend on the enclosing scopes; so once the program is parsed the
\* outermost scope holds the names used outside function definitions, in
\* order, and no name used only inside one.
C6_ScopeRestored ==
  /\ phase \in {"parse", "gen"} =>
       \A i \in 1..Len(tokens) : tokens[i] = Kw("FUNC") =>
         \A p \in ScopesAt(i) :
           LET r == read_funcdef(p)
           IN ~r.p.err =>
                /\ r.p.vt = p.vt
                /\ r.node = read_funcdef([p EXCEPT !.vt = <<<<>>>>]).node
  /\ phase = "gen" => ps.vt = <<OuterNames(ast, <<>>)>>

\* C6 witness: x is assigned at top level and y only inside a function; after
\* the parse the top-level scope holds x alone
C6_Witness ==
  /\ phase = "gen"
  /\ ps.vt = <<<<"x">>>>
  /\ Contains(ast, {"FuncDef"})
  /\ \E i \in 1..Len(tokens) : tokens[i] = Id("y")

\* C8 (as claimed): code generation of a tree that holds a SignChange or a
\* Send node at any depth ends in the unsupported-feature error that names
\* the feature; it never completes and never ends another way.
C8_Unsupported ==
  (phase \notin {"parse", "ParseError", "gen"} /\ Contains(ast, {"SignChange", "Send"}))
    => phase \in {Unsupported("SignChangeNode#code_gen()"),
                  Unsupported("SendNode#code_gen()")}

\* the operand slots that follow an opcode
Arity(op) ==
  CASE op \in {"CALL_FUNC", "DEF_FUNC"} -> 2
    [] op \in {"PUT_INT", "PUT_BOOL", "PUT_STRING", "LOAD_LOCAL", "STORE_LOCAL",
               "JUMP_IFNOT", "JUMP", "LOAD_CLASS", "LOAD_OBJ_FIELD"} -> 1
    [] OTHER -> 0

\* the indices of code, from pc on, at which an instruction starts
RECURSIVE Boundaries(_, _)
Boundaries(code, pc) ==
  IF pc >= Len(code) THEN {}
  ELSE {pc} \cup Boundaries(code, pc + 1 + Arity(code[pc + 1].op))

\* in code and in every function body it defines: the operand of a
\* JUMP_IFNOT is the instruction boundary right after a JUMP (the start of
\* the else code), the operand of that JUMP is a later boundary or the end
\* of the same buffer, and neither is the dummy 0
RECURSIVE JumpsOK(_)
JumpsOK(code) ==
  LET starts == Boundaries(code, 0)
      ends == starts \cup {Len(code)}
  IN \A pc \in starts :
       /\ code[pc + 1].op = "JUMP_IFNOT" =>
            LET to_else == code[pc + 2].ival
            IN /\ to_else # 0
               /\ to_else \in starts
               /\ to_else - 2 \in starts
               /\ to_else - 2 > pc
               /\ code[to_else - 1].op = "JUMP"
               /\ code[to_else].ival \in ends
               /\ code[to_else].ival > to_else
       /\ code[pc + 1].op = "JUMP" =>
            code[pc + 2].ival \in ends /\ code[pc + 2].ival > pc + 2
       /\ code[pc + 1].op = "DEF_FUNC" => JumpsOK(code[pc + 3].objval)

\* the tree alone fixes the value of node: literals, operators on them,
\* the last statement of a sequence, the branch an if takes
RECURSIVE Valued(_), ValueOf(_)
Valued(node) ==
  CASE node.kind \in {"IntLiteral", "BoolLiteral"} -> TRUE
    [] node.kind = "Binop" -> Valued(node.lhs) /\ Valued(node.rhs)
    [] node.kind = "Stmts" -> Valued(node.next)
    [] node.kind = "If" ->
         /\ Valued(node.cond)
         /\ IF ValueOf(node.cond) = VBool(TRUE) THEN Valued(node.then)
            ELSE node.els.kind = "nullptr" \/ Valued(node.els)
    [] OTHER -> FALSE
ValueOf(node) ==
  CASE node.kind = "IntLiteral" -> VInt(node.value)
    [] node.kind = "BoolLiteral" -> VBool(node.value)
    [] node.kind = "Binop" ->
         binop(to_opcode(node.op), ValueOf(node.lhs).ival, ValueOf(node.rhs).ival)
    [] node.kind = "Stmts" -> ValueOf(node.next)
    [] node.kind = "If" ->
         IF ValueOf(node.cond) = VBool(TRUE) THEN ValueOf(node.then)
         ELSE IF node.els.kind = "nullptr" THEN VInt(0)
         ELSE ValueOf(node.els)

\* C10 (as claimed): in every generated buffer both jump operands of an If
\* are patched to instruction boundaries of that buffer (the start of the
\* else code, the end of the else code), and a program that is one if
\* statement, once run, leaves one value: that of the branch taken, 0 for a
\* false condition without else.
C10_IfJumps ==
  /\ JumpsOK(codes)
  /\ (phase = "halted" /\ ast.kind = "If") =>
       /\ Len(vm.stack) = 1
       /\ Valued(ast) => vm.stack = <<ValueOf(ast)>>

----------------------------------------------------------------------------
(* Class definitions: the definition contexts *)

DefM == Func("m", <<>>, One)
DefN == Func("n", <<>>, Two)
CallF == <<Id("f"), Kw("PARENL"), Kw("PARENR")>>
CallG == <<Id("g"), Kw("PARENL"), Kw("PARENR")>>

ClassStmtsOf ==
  {One,
   Class("K", DefM),
   Class("K", DefM \o <<NL>> \o DefN),
   Class("K", <<>>),
   Class("A", Class("B", DefM)),
   Class("K", IfElse(<<Kw("TRUE")>>, DefM, DefN) \o <<NL>> \o DefN),
   Class("K", If(<<Kw("FALSE")>>, DefM)),
   IfElse(<<Kw("TRUE")>>, Class("K", DefM), Class("L", DefN)),
   IfElse(<<Kw("FALSE")>>, Class("K", DefM), Class("L", DefN)),
   If(<<Kw("FALSE")>>, Class("K", DefM)),
   Func("f", <<>>, Class("K", DefM) \o <<NL>> \o One),
   Func("g", <<>>, One),
   Class("L", CallF),
   Class("L", CallG \o <<NL>> \o DefN),
   CallF}

InitClass == tokens \in ProgramsUpTo(ClassStmtsOf, MaxStmts) /\ PipelineStart /\ NoObjects

NextClass ==
  \/ ParseStmt
  \/ ParseEnd
  \/ CodeGen
  \/ Exec_PUT
  \/ Exec_POP
  \/ Exec_JUMP_IFNOT
  \/ Exec_JUMP
  \/ Exec_PUT_SELF
  \/ Exec_CALL_FUNC
  \/ Exec_DEF_FUNC
  \/ Exec_LOAD_CLASS
  \/ Exec_PREV_ENV
  \/ Exec_RET
  \/ Halt

SpecClass == InitClass /\ [][NextClass]_vars

\* the class regions of code that are open at index to: those whose
\* LOAD_CLASS lies before to and whose PREV_ENV does not, outermost first,
\* each with its name and the index of its LOAD_CLASS; the scan is at the
\* instruction boundary at, with the regions open there
RECURSIVE OpenAt(_, _, _, _)
OpenAt(code, at, to, open) ==
  IF at >= to \/ at >= Len(code) THEN open
  ELSE LET op == code[at + 1].op
       IN OpenAt(code, at + 1 + Arity(op), to,
                 IF op = "LOAD_CLASS"
                   THEN Append(open, [name |-> code[at + 2].sval, at |-> at])
                 ELSE IF op = "PREV_ENV" /\ open # <<>>
                   THEN SubSeq(open, 1, Len(open) - 1)
                 ELSE open)

Open(code, pc) == OpenAt(code, 0, pc, <<>>)
OpenNames(code, pc) == [i \in DOMAIN Open(code, pc) |-> Open(code, pc)[i].name]

\* from the instruction boundary at on, with depth regions open: every
\* PREV_ENV closes an open region, every region is closed at the end of the
\* buffer, RET stands nowhere but at the end of a function's buffer, and
\* the same holds in the buffer of every function defined
RECURSIVE WellNested(_, _, _, _)
WellNested(code, at, depth, isBody) ==
  IF at >= Len(code) THEN depth = 0
  ELSE LET op == code[at + 1].op
           next == at + 1 + Arity(op)
       IN CASE op = "LOAD_CLASS" -> WellNested(code, next, depth + 1, isBody)
            [] op = "PREV_ENV" -> depth > 0 /\ WellNested(code, next, depth - 1, isBody)
            [] op = "DEF_FUNC" ->
                 /\ code[at + 3].objval # <<>>
                 /\ code[at + 3].objval[Len(code[at + 3].objval)] = Op("RET")
                 /\ WellNested(code[at + 3].objval, 0, 0, TRUE)
                 /\ WellNested(code, next, depth, isBody)
            [] op = "RET" -> isBody /\ next = Len(code) /\ depth = 0
            [] OTHER -> WellNested(code, next, depth, isBody)

\* every jump of code, and of the buffers of the functions it defines, has
\* its target in the regions the jump itself is in: none enters or leaves a
\* class region except through its ends
RECURSIVE JumpsStayInside(_)
JumpsStayInside(code) ==
  \A pc \in Boundaries(code, 0) :
    /\ code[pc + 1].op \in {"JUMP", "JUMP_IFNOT"} =>
         Open(code, code[pc + 2].ival) = Open(code, pc)
    /\ code[pc + 1].op = "DEF_FUNC" => JumpsStayInside(code[pc + 3].objval)

\* the slots the code of node takes in the buffer it is generated into
RECURSIVE Size(_), SizeOf(_, _)
Size(node) ==
  CASE node.kind \in {"IntLiteral", "BoolLiteral", "StringLiteral", "Ident",
                      "RefField"} -> 2
    [] node.kind = "Binop" -> Size(node.lhs) + Size(node.rhs) + 1
    [] node.kind = "Assign" -> Size(node.rhs) + 2
    [] node.kind = "Stmts" -> Size(node.current) + 1 + Size(node.next)
    [] node.kind = "If" ->
         Size(node.cond) + 2 + Size(node.then) + 2
           + (IF node.els.kind = "nullptr" THEN 2 ELSE Size(node.els))
    [] node.kind = "FuncCall" ->
         (IF node.is_trailer THEN 0 ELSE 1) + SizeOf(node.args, 1) + 3
    [] node.kind = "FuncDef" -> 3
    [] node.kind = "KlassDef" -> 2 + Size(node.body) + 1
    [] node.kind = "PrimeExpr" -> Size(node.prime) + Size(node.traier)
    [] node.kind = "Import" -> Size(node.module) + 1
    [] OTHER -> 0
SizeOf(args, i) == IF i > Len(args) THEN 0 ELSE Size(args[i]) + SizeOf(args, i + 1)

\* the names of the class definitions of a tree, and of the LOAD_CLASS
\* instructions of a buffer (function bodies at the place of their
\* definition), in order
RECURSIVE KlassNames(_), KlassNamesOf(_, _), LoadedNames(_, _)
KlassNames(node) ==
  (IF node.kind = "KlassDef" THEN <<node.name>> ELSE <<>>)
    \o KlassNamesOf(Children(node), 1)
KlassNamesOf(kids, i) ==
  IF i > Len(kids) THEN <<>> ELSE KlassNames(kids[i]) \o KlassNamesOf(kids, i + 1)
LoadedNames(code, at) ==
  IF at >= Len(code) THEN <<>>
  ELSE LET op == code[at + 1].op
       IN (CASE op = "LOAD_CLASS" -> <<code[at + 2].sval>>
             [] op = "DEF_FUNC" -> LoadedNames(code[at + 3].objval, 0)
             [] OTHER -> <<>>)
            \o LoadedNames(code, at + 1 + Arity(op))

\* the definition contexts the position of the machine calls for: the top
\* level, then the class regions open at the call of every frame, then
\* those open at the instruction about to run
RECURSIVE FrameContexts(_, _)
FrameContexts(frames, i) ==
  IF i > Len(frames) THEN <<>>
  ELSE OpenNames(frames[i].code, frames[i].pc) \o FrameContexts(frames, i + 1)

ExpectedContexts ==
  <<MainObj>> \o FrameContexts(vm.frames, 1) \o OpenNames(vm.code, vm.pc)

\* code generation has filled the buffer
Generated == codes # <<>>

\* C11: in every generated buffer the LOAD_CLASS and PREV_ENV instructions
\* are matched and properly nested, one pair for every class definition of
\* the tree in order, no jump crosses the bounds of a class region, and a
\* function definition takes the three slots of its DEF_FUNC in the buffer
\* it stands in, its body ending in RET in a buffer of its own; so at
\* every point of every run the stack of definition contexts is the top
\* level followed by the classes whose region the run is in: it is after a
\* class definition what it was before, and a DEF_FUNC of a class body runs
\* with that class on top.
C11_ClassContexts ==
  /\ Generated =>
       /\ WellNested(codes, 0, 0, FALSE)
       /\ JumpsStayInside(codes)
       /\ LoadedNames(codes, 0) = KlassNames(ast)
       /\ Len(codes) = Size(ast)
  /\ vm.envs = ExpectedContexts
  /\ (Running /\ CurOp = "DEF_FUNC" /\ Open(vm.code, vm.pc) # <<>>) =>
       vm.envs[Len(vm.envs)] = OpenNames(vm.code, vm.pc)[Len(Open(vm.code, vm.pc))]

\* C11 witness: a function that defines class K was called from the body of
\* class L and has returned there, the method of K is registered in K, and
\* the run has ended with the top level as the only context
C11_Witness ==
  /\ phase = "halted"
  /\ tokens = Func("f", <<>>, Class("K", DefM) \o <<NL>> \o One) \o <<NL>>
                \o Class("L", CallF) \o <<NL>>
  /\ "K" \in DOMAIN vm.defs
  /\ "m" \in DOMAIN vm.defs["K"]
  /\ vm.envs = <<MainObj>>

====
